---- MODULE Spec2Model ----
(***************************************************************************)
(* Model of src/src/MemoryGuard.hpp: per-thread stack of jump buffers,     *)
(* the SIGSEGV handler that longjmps to the top jump buffer, and           *)
(* segvTryBlock, which turns the resumed jump into an                      *)
(* InvalidMemoryAccessException.                                           *)
(*                                                                         *)
(* One action per step of the library; the client code (the blocks and     *)
(* the code between protected regions) is a nondeterministic caller.       *)
(***************************************************************************)
EXTENDS Integers, Sequences, FiniteSets, TLC

\* ---------------------------------------------------------------- bounds
\* number of threads of the process
NThreads == 2
\* protected regions the main thread may enter when it runs alone
MaxRegions == 3
\* protected regions the threads may enter in total when all of them run
MaxRegionsConc == 2

Threads == 1..NThreads

\* nullptr
NullPtr == 0
\* the addresses a block may fault at: nullptr and the invalid address 0xBEEF
FaultAddrs == {NullPtr, 48879}
\* the ordinary (non-fault) exceptions a block may throw
OrdinaryExceptions ==
    { [kind |-> "std::runtime_error", msg |-> <<"Standard C++ exception">>],
      [kind |-> "CustomException",    msg |-> <<"Custom exception message">>] }
NoException == [kind |-> "none", msg |-> <<>>]
\* the mutex of getHandlersMutex() when no thread holds it
NoOwner == 0

VARIABLES
    pc,                  \* position of each thread
    frames,              \* active segvTryBlock invocations of each thread, outermost first
    ctx,                 \* thread_local currentThreadContext (exists = non-null)
    currentFaultAddress, \* thread_local currentFaultAddress
    handlers,            \* keys of getThreadHandlers()
    mutexOwner,          \* holder of getHandlersMutex()
    installed,           \* static bool installed of installGlobalHandlerOnce
    sigHandler,          \* disposition of SIGSEGV: TRUE when threadSegvHandler is installed
    sigBlocked,          \* SIGSEGV is in the thread's signal mask
    exc,                 \* C++ exception in flight on each thread
    crashed,             \* the process was terminated by the default action of SIGSEGV
    faultAddr,           \* address of the access that is faulting (si_addr)
    quota,               \* regions the threads may still enter
    \* history of each thread, for stating the properties
    entered,             \* number of regions entered; the n-th region has Checkpoint(t, n)
    depthOf,             \* depthOf[t][n]: number of active regions when region n was entered
    faulted,             \* regions whose block faulted
    returned,            \* regions whose segvTryBlock returned normally
    raisedBy,            \* regions whose segvTryBlock raised InvalidMemoryAccessException, in order
    threw,               \* an exception has left a block of the thread through segvTryBlock
    unregInside,         \* unregisterThreadHandler ran while a region was active
    unregNoop,           \* since its last region entry the thread made an unregisterThreadHandler
                         \* call that found no context
    afterUnregister,     \* the thread released its context outside every region, and no
                         \* exception has left a block through segvTryBlock since
    installCount,        \* number of sigaction calls made
    redelivered          \* the handler returned and the faulting access was restarted

vars == << pc, frames, ctx, currentFaultAddress, handlers, mutexOwner, installed,
           sigHandler, sigBlocked, exc, crashed, faultAddr, quota, entered, depthOf,
           faulted, returned, raisedBy, threw, unregInside, unregNoop, afterUnregister, installCount, redelivered >>

\* ---------------------------------------------------------------- data
\* struct ThreadContext: jmpbuf_stack and active; exists = FALSE models nullptr
NoContext == [exists |-> FALSE, jmpbuf_stack |-> <<>>, active |-> FALSE]
NewContext == [exists |-> TRUE, jmpbuf_stack |-> <<>>, active |-> FALSE]

HexDigits == << "0", "1", "2", "3", "4", "5", "6", "7",
                "8", "9", "A", "B", "C", "D", "E", "F" >>

\* std::hex << std::uppercase << uintptr_t
RECURSIVE HexUpper(_)
HexUpper(n) ==
    IF n < 16 THEN << HexDigits[n + 1] >>
    ELSE HexUpper(n \div 16) \o << HexDigits[(n % 16) + 1] >>

\* slip: the exception is built with its default message
FaultMessage_Default(addr) == << "Invalid memory access detected" >>

\* the message segvTryBlock builds from currentFaultAddress
FaultMessage(addr) ==
    IF addr = NullPtr
    THEN << "Invalid null pointer access exception" >>
    ELSE << "Invalid memory access exception at address (0x" >> \o HexUpper(addr) \o << ")" >>

InvalidMemoryAccessException(msg) == [kind |-> "InvalidMemoryAccessException", msg |-> msg]

\* slip: currentThreadContext is a plain static shared by all threads
ContextSlot_Shared(t) == 1

\* thread_local: every thread has its own currentThreadContext
ContextSlot(t) == t

\* the context the code running on thread t sees
currentThreadContext(t) == ctx[ContextSlot(t)]

\* the jmp_buf of the n-th segvTryBlock invocation of thread t
Checkpoint(t, n) == << t, n >>

\* slip: the handler does not unblock SIGSEGV before it jumps
UnblockSignal_Missing(blocked) == blocked

\* sigprocmask(SIG_UNBLOCK, {signal}): SIGSEGV leaves the thread's mask
UnblockSignal(blocked) == FALSE

\* slip: a fixed array of two jump buffers, a push beyond it is dropped
PushJmpbuf_Capped(s, cp) == IF Len(s) >= 2 THEN s ELSE Append(s, cp)

\* slip: one jump buffer per thread, overwritten by a nested region
PushJmpbuf_Overwrite(s, cp) == IF s = <<>> THEN << cp >> ELSE [s EXCEPT ![Len(s)] = cp]

\* jmpbuf_stack.push(jmpbuf[0])
PushJmpbuf(s, cp) == Append(s, cp)

\* slip: the fault-resumed path leaves the checkpoint on the stack
PopJmpbuf_Keep(s) == s

\* slip: the fault-resumed path clears the whole stack
PopJmpbuf_All(s) == <<>>

\* jmpbuf_stack.pop() on the fault-resumed path
PopJmpbuf(s) == SubSeq(s, 1, Len(s) - 1)

\* slip: the normal path leaves its checkpoint on the stack
PopIfNotEmpty_Skip(s) == s

\* if (!jmpbuf_stack.empty()) jmpbuf_stack.pop() on the normal path
PopIfNotEmpty(s) == IF s = <<>> THEN s ELSE SubSeq(s, 1, Len(s) - 1)

\* slip: segvTryBlock catches what the block throws and raises its own error
PropagatedException_Wrapped(e) ==
    [kind |-> "InvalidMemoryAccessException", msg |-> e.msg]

\* an exception thrown inside block() passes through segvTryBlock, which has
\* no try block around the call
PropagatedException(e) == e

Top(s) == s[Len(s)]
Pop(s) == SubSeq(s, 1, Len(s) - 1)
StackSize(t) == Len(currentThreadContext(t).jmpbuf_stack)
Depth(t) == Len(frames[t])
FrameCps(t) == [i \in 1..Len(frames[t]) |-> frames[t][i].cp]
Range(s) == { s[i] : i \in 1..Len(s) }

\* ---------------------------------------------------------------- initial states
InitCommon ==
    /\ frames = [t \in Threads |-> <<>>]
    /\ ctx = [t \in Threads |-> NoContext]
    /\ currentFaultAddress = [t \in Threads |-> NullPtr]
    /\ handlers = {}
    /\ mutexOwner = NoOwner
    /\ installed = FALSE
    /\ sigHandler = FALSE
    /\ sigBlocked = [t \in Threads |-> FALSE]
    /\ exc = [t \in Threads |-> NoException]
    /\ crashed = FALSE
    /\ faultAddr = [t \in Threads |-> NullPtr]
    /\ entered = [t \in Threads |-> 0]
    /\ depthOf = [t \in Threads |-> <<>>]
    /\ faulted = [t \in Threads |-> {}]
    /\ returned = [t \in Threads |-> {}]
    /\ raisedBy = [t \in Threads |-> <<>>]
    /\ threw = [t \in Threads |-> FALSE]
    /\ unregInside = [t \in Threads |-> FALSE]
    /\ unregNoop = [t \in Threads |-> FALSE]
    /\ afterUnregister = [t \in Threads |-> FALSE]
    /\ installCount = 0
    /\ redelivered = [t \in Threads |-> FALSE]

\* the main thread alone
Init ==
    /\ InitCommon
    /\ pc = [t \in Threads |-> IF t = 1 THEN "run" ELSE "exited"]
    /\ quota = MaxRegions

\* every thread running
InitConc ==
    /\ InitCommon
    /\ pc = [t \in Threads |-> "run"]
    /\ quota = MaxRegionsConc

\* ---------------------------------------------------------------- segvTryBlock: entry
\* segvTryBlock calls installGlobalHandlerOnce, which reads the static flag
installGlobalHandlerOnce(t) ==
    /\ ~crashed
    /\ pc[t] = "run"
    /\ quota > 0
    /\ quota' = quota - 1
    /\ pc' = [pc EXCEPT ![t] = IF installed THEN "register" ELSE "sigaction"]
    /\ unregNoop' = [unregNoop EXCEPT ![t] = FALSE]
    /\ UNCHANGED << frames, ctx, currentFaultAddress, handlers, mutexOwner, installed,
                    sigHandler, sigBlocked, exc, crashed, faultAddr, entered, depthOf,
                    faulted, returned, raisedBy, threw, unregInside, afterUnregister,
                    installCount, redelivered >>

\* slip: the handler is installed for another signal, SIGSEGV keeps its disposition
Sigaction_OtherSignal(h) == h

\* sigaction(SIGSEGV, &sa, NULL) with sa.sa_sigaction = threadSegvHandler
Sigaction(h) == TRUE

\* the flag was read as false: sigaction(SIGSEGV, threadSegvHandler)
installSigaction(t) ==
    /\ ~crashed
    /\ pc[t] = "sigaction"
    /\ sigHandler' = Sigaction(sigHandler)
    /\ installCount' = installCount + 1
    /\ pc' = [pc EXCEPT ![t] = "set_installed"]
    /\ UNCHANGED << frames, ctx, currentFaultAddress, handlers, mutexOwner, installed,
                    sigBlocked, exc, crashed, faultAddr, quota, entered, depthOf,
                    faulted, returned, raisedBy, threw, unregInside, unregNoop,
                    afterUnregister, redelivered >>

\* installed = true, after sigaction has returned
installSetFlag(t) ==
    /\ ~crashed
    /\ pc[t] = "set_installed"
    /\ installed' = TRUE
    /\ pc' = [pc EXCEPT ![t] = "register"]
    /\ UNCHANGED << frames, ctx, currentFaultAddress, handlers, mutexOwner, sigHandler,
                    sigBlocked, exc, crashed, faultAddr, quota, entered, depthOf,
                    faulted, returned, raisedBy, threw, unregInside, unregNoop,
                    afterUnregister, installCount, redelivered >>

\* slip: a context is made on every call
NeedsContext_Always(t) == TRUE

\* if (!currentThreadContext)
NeedsContext(t) == ~currentThreadContext(t).exists

\* slip: the map is changed without the lock
MutexAvailable_Always(owner) == TRUE

\* std::lock_guard: the constructor returns when no thread holds the mutex
MutexAvailable(owner) == owner = NoOwner

\* registerThreadHandler: create the context when the thread has none
registerThreadHandler(t) ==
    /\ ~crashed
    /\ pc[t] = "register"
    /\ IF NeedsContext(t)
       THEN /\ ctx' = [ctx EXCEPT ![ContextSlot(t)] = NewContext]
            /\ pc' = [pc EXCEPT ![t] = "reg_lock"]
       ELSE /\ pc' = [pc EXCEPT ![t] = "enter"]
            /\ UNCHANGED ctx
    /\ UNCHANGED << frames, currentFaultAddress, handlers, mutexOwner, installed,
                    sigHandler, sigBlocked, exc, crashed, faultAddr, quota, entered,
                    depthOf, faulted, returned, raisedBy, threw, unregInside, unregNoop, afterUnregister,
                    installCount, redelivered >>

\* registerThreadHandler: std::lock_guard lock(getHandlersMutex())
registerLock(t) ==
    /\ ~crashed
    /\ pc[t] = "reg_lock"
    /\ MutexAvailable(mutexOwner)
    /\ mutexOwner' = t
    /\ pc' = [pc EXCEPT ![t] = "reg_insert"]
    /\ UNCHANGED << frames, ctx, currentFaultAddress, handlers, installed,
                    sigHandler, sigBlocked, exc, crashed, faultAddr, quota, entered,
                    depthOf, faulted, returned, raisedBy, threw, unregInside, unregNoop, afterUnregister,
                    installCount, redelivered >>

\* registerThreadHandler: getThreadHandlers()[this_id] = currentThreadContext; unlock
registerInsert(t) ==
    /\ ~crashed
    /\ pc[t] = "reg_insert"
    /\ handlers' = handlers \cup {t}
    /\ mutexOwner' = NoOwner
    /\ pc' = [pc EXCEPT ![t] = "enter"]
    /\ UNCHANGED << frames, ctx, currentFaultAddress, installed,
                    sigHandler, sigBlocked, exc, crashed, faultAddr, quota, entered,
                    depthOf, faulted, returned, raisedBy, threw, unregInside, unregNoop, afterUnregister,
                    installCount, redelivered >>

\* segvTryBlock: active = true; setjmp(jmpbuf) == 0; jmpbuf_stack.push(jmpbuf[0]); block()
segvTryBlockEnter(t) ==
    /\ ~crashed
    /\ pc[t] = "enter"
    /\ LET cp == Checkpoint(t, entered[t] + 1) IN
         /\ ctx' = [ctx EXCEPT ![ContextSlot(t)].active = TRUE,
                               ![ContextSlot(t)].jmpbuf_stack = PushJmpbuf(@, cp)]
         /\ frames' = [frames EXCEPT ![t] = Append(@, [cp |-> cp, base |-> StackSize(t)])]
         /\ entered' = [entered EXCEPT ![t] = @ + 1]
         /\ depthOf' = [depthOf EXCEPT ![t] = Append(@, Depth(t))]
    /\ pc' = [pc EXCEPT ![t] = "run"]
    /\ UNCHANGED << currentFaultAddress, handlers, mutexOwner, installed,
                    sigHandler, sigBlocked, exc, crashed, faultAddr, quota,
                    faulted, returned, raisedBy, threw, unregInside, unregNoop, afterUnregister,
                    installCount, redelivered >>

\* ---------------------------------------------------------------- the caller's code
\* the running code (a block, or the code outside every region) accesses address a
BlockFaults(t, a) ==
    /\ ~crashed
    /\ pc[t] = "run"
    /\ pc' = [pc EXCEPT ![t] = "fault"]
    /\ faultAddr' = [faultAddr EXCEPT ![t] = a]
    /\ faulted' = [faulted EXCEPT ![t] =
                     IF frames[t] = <<>> THEN @ ELSE @ \cup {Top(frames[t]).cp}]
    /\ UNCHANGED << frames, ctx, currentFaultAddress, handlers, mutexOwner, installed,
                    sigHandler, sigBlocked, exc, crashed, quota, entered, depthOf,
                    returned, raisedBy, threw, unregInside, unregNoop, afterUnregister, installCount, redelivered >>

\* the block of the innermost region throws an ordinary C++ exception
BlockThrows(t, e) ==
    /\ ~crashed
    /\ pc[t] = "run"
    /\ frames[t] # <<>>
    /\ exc' = [exc EXCEPT ![t] = e]
    /\ pc' = [pc EXCEPT ![t] = "unwind"]
    /\ UNCHANGED << frames, ctx, currentFaultAddress, handlers, mutexOwner, installed,
                    sigHandler, sigBlocked, crashed, faultAddr, quota, entered, depthOf,
                    faulted, returned, raisedBy, threw, unregInside, unregNoop, afterUnregister, installCount,
                    redelivered >>

\* a catch clause of the code the exception is in handles it
Catch(t) ==
    /\ ~crashed
    /\ pc[t] = "unwind"
    /\ exc' = [exc EXCEPT ![t] = NoException]
    /\ faultAddr' = [faultAddr EXCEPT ![t] = NullPtr]
    /\ pc' = [pc EXCEPT ![t] = "run"]
    /\ UNCHANGED << frames, ctx, currentFaultAddress, handlers, mutexOwner, installed,
                    sigHandler, sigBlocked, crashed, quota, entered, depthOf,
                    faulted, returned, raisedBy, threw, unregInside, unregNoop, afterUnregister, installCount,
                    redelivered >>

\* slip: the entry of a thread is reclaimed when the thread ends
HandlersAfterThreadExit_Reclaimed(h, t) == h \ {t}

\* the map holds its own shared_ptr to each context and nothing erases an
\* entry when its thread ends
HandlersAfterThreadExit(h, t) == h

\* the thread function returns; its thread_local shared_ptr is destroyed
ThreadExit(t) ==
    /\ ~crashed
    /\ pc[t] = "run"
    /\ frames[t] = <<>>
    /\ pc' = [pc EXCEPT ![t] = "exited"]
    /\ ctx' = [ctx EXCEPT ![ContextSlot(t)] = NoContext]
    /\ handlers' = HandlersAfterThreadExit(handlers, t)
    /\ UNCHANGED << frames, currentFaultAddress, mutexOwner, installed,
                    sigHandler, sigBlocked, exc, crashed, faultAddr, quota, entered,
                    depthOf, faulted, returned, raisedBy, threw, unregInside, unregNoop, afterUnregister,
                    installCount, redelivered >>

\* ---------------------------------------------------------------- segvTryBlock: exits
\* block() returned: pop when the stack is not empty, active = false.
\* With no context the read of currentThreadContext->jmpbuf_stack faults.
segvTryBlockReturn(t) ==
    /\ ~crashed
    /\ pc[t] = "run"
    /\ frames[t] # <<>>
    /\ IF currentThreadContext(t).exists
       THEN /\ ctx' = [ctx EXCEPT ![ContextSlot(t)].jmpbuf_stack = PopIfNotEmpty(@),
                                  ![ContextSlot(t)].active = FALSE]
            /\ frames' = [frames EXCEPT ![t] = Pop(@)]
            /\ returned' = [returned EXCEPT ![t] = @ \cup {Top(frames[t]).cp}]
            /\ UNCHANGED << pc, faultAddr >>
       ELSE /\ pc' = [pc EXCEPT ![t] = "fault"]
            /\ faultAddr' = [faultAddr EXCEPT ![t] = 16]
            /\ UNCHANGED << ctx, frames, returned >>
    /\ UNCHANGED << currentFaultAddress, handlers, mutexOwner, installed,
                    sigHandler, sigBlocked, exc, crashed, quota, entered, depthOf,
                    faulted, raisedBy, threw, unregInside, unregNoop, afterUnregister, installCount, redelivered >>

\* an exception in the block leaves segvTryBlock: nothing catches it and
\* nothing is popped
segvTryBlockPropagate(t) ==
    /\ ~crashed
    /\ pc[t] = "unwind"
    /\ frames[t] # <<>>
    /\ frames' = [frames EXCEPT ![t] = Pop(@)]
    /\ exc' = [exc EXCEPT ![t] = PropagatedException(@)]
    /\ threw' = [threw EXCEPT ![t] = TRUE]
    /\ afterUnregister' = [afterUnregister EXCEPT ![t] = FALSE]
    /\ UNCHANGED << pc, ctx, currentFaultAddress, handlers, mutexOwner, installed,
                    sigHandler, sigBlocked, crashed, faultAddr, quota, entered,
                    depthOf, faulted, returned, raisedBy, unregInside, unregNoop,
                    installCount, redelivered >>

\* the else branch of setjmp: active = false, pop, build the message, throw
segvTryBlockResumed(t) ==
    /\ ~crashed
    /\ pc[t] = "resumed"
    /\ ctx' = [ctx EXCEPT ![ContextSlot(t)].active = FALSE,
                          ![ContextSlot(t)].jmpbuf_stack = PopJmpbuf(@)]
    /\ exc' = [exc EXCEPT ![t] =
                 InvalidMemoryAccessException(FaultMessage(currentFaultAddress[t]))]
    /\ raisedBy' = [raisedBy EXCEPT ![t] = Append(@, Top(frames[t]).cp)]
    /\ frames' = [frames EXCEPT ![t] = Pop(@)]
    /\ pc' = [pc EXCEPT ![t] = "unwind"]
    /\ UNCHANGED << currentFaultAddress, handlers, mutexOwner, installed,
                    sigHandler, sigBlocked, crashed, faultAddr, quota, entered,
                    depthOf, faulted, returned, threw, unregInside, unregNoop, afterUnregister, installCount,
                    redelivered >>

\* ---------------------------------------------------------------- the fault path
\* the kernel delivers SIGSEGV for the faulting access. With the default
\* disposition, or with SIGSEGV blocked, the process is terminated; otherwise
\* the handler is entered with SIGSEGV added to the signal mask (no SA_NODEFER).
SignalDelivery(t) ==
    /\ ~crashed
    /\ pc[t] = "fault"
    /\ IF ~sigHandler \/ sigBlocked[t]
       THEN /\ crashed' = TRUE
            /\ pc' = [pc EXCEPT ![t] = "crashed"]
            /\ UNCHANGED sigBlocked
       ELSE /\ sigBlocked' = [sigBlocked EXCEPT ![t] = TRUE]
            /\ pc' = [pc EXCEPT ![t] = "handler"]
            /\ UNCHANGED crashed
    /\ UNCHANGED << frames, ctx, currentFaultAddress, handlers, mutexOwner, installed,
                    sigHandler, exc, faultAddr, quota, entered, depthOf,
                    faulted, returned, raisedBy, threw, unregInside, unregNoop, afterUnregister, installCount,
                    redelivered >>

\* the address threadSegvHandler stores for a fault at addr
RecordedFaultAddress(addr) == NullPtr

\* the frame of thread t whose setjmp made checkpoint cp; 0 when it has exited
FrameOf(t, cp) ==
    IF \E i \in 1..Len(frames[t]) : frames[t][i].cp = cp
    THEN CHOOSE i \in 1..Len(frames[t]) : frames[t][i].cp = cp
    ELSE 0

\* slip: the handler jumps to the oldest checkpoint of the stack
JumpTarget_Bottom(t) == ctx[t].jmpbuf_stack[1]

\* the checkpoint threadSegvHandler jumps to
JumpTarget(t) == Top(currentThreadContext(t).jmpbuf_stack)

\* slip: the handler looks the context up in the registry, under its lock
HandlerBlockedBy_Mutex(owner) == owner # NoOwner

\* the handler takes no lock: the holder of the registry mutex does not
\* keep it from running
HandlerBlockedBy(owner) == FALSE

\* slip: the handler pops the checkpoint it jumps to
StackAfterHandlerJump_Popped(s) == SubSeq(s, 1, Len(s) - 1)

\* the handler leaves the stack as it is: "Don't pop the stack here, it will
\* be popped in segvTryBlock after longjmp"
StackAfterHandlerJump(s) == s

\* threadSegvHandler, run by the faulting thread:
\*   sigprocmask(SIG_UNBLOCK); currentFaultAddress = nullptr;
\*   if the stack is not empty, longjmp to a copy of its top, else return
\*   (the faulting access is then restarted and faults again).
\* A null currentThreadContext is dereferenced: the handler faults in itself
\* until the process is terminated. A longjmp to the jmp_buf of an invocation
\* that has exited is undefined: the process is terminated, or control
\* arrives in the else branch of that invocation's setjmp.
threadSegvHandler(t) ==
    /\ ~crashed
    /\ pc[t] = "handler"
    /\ ~HandlerBlockedBy(mutexOwner)
    /\ currentFaultAddress' =
          [currentFaultAddress EXCEPT ![t] = RecordedFaultAddress(faultAddr[t])]
    /\ IF ~currentThreadContext(t).exists
       THEN /\ crashed' = TRUE
            /\ pc' = [pc EXCEPT ![t] = "crashed"]
            /\ UNCHANGED << frames, redelivered >>
       ELSE IF currentThreadContext(t).jmpbuf_stack # <<>>
       THEN IF FrameOf(t, JumpTarget(t)) # 0
            THEN /\ frames' = [frames EXCEPT ![t] = SubSeq(@, 1, FrameOf(t, JumpTarget(t)))]
                 /\ pc' = [pc EXCEPT ![t] = "resumed"]
                 /\ UNCHANGED << crashed, redelivered >>
            ELSE \/ /\ crashed' = TRUE
                    /\ pc' = [pc EXCEPT ![t] = "crashed"]
                    /\ UNCHANGED << frames, redelivered >>
                 \/ /\ pc' = [pc EXCEPT ![t] = "resumed_exited"]
                    /\ UNCHANGED << crashed, frames, redelivered >>
       ELSE /\ pc' = [pc EXCEPT ![t] = "fault"]
            /\ redelivered' = [redelivered EXCEPT ![t] = TRUE]
            /\ UNCHANGED << crashed, frames >>
    \* a longjmp keeps the mask the handler set; a return restores the mask
    \* of the interrupted code
    /\ sigBlocked' = [sigBlocked EXCEPT ![t] =
                        IF pc'[t] = "fault" THEN FALSE ELSE UnblockSignal(@)]
    /\ ctx' = IF currentThreadContext(t).exists /\ currentThreadContext(t).jmpbuf_stack # <<>>
              THEN [ctx EXCEPT ![ContextSlot(t)].jmpbuf_stack = StackAfterHandlerJump(@)]
              ELSE ctx
    /\ UNCHANGED << handlers, mutexOwner, installed, sigHandler, exc, faultAddr,
                    quota, entered, depthOf, faulted, returned, raisedBy, threw,
                    unregInside, unregNoop, afterUnregister, installCount >>

\* the else branch of setjmp running in the frame of an invocation that has
\* exited: the same statements; the throw unwinds into the running code or
\* the process is terminated
segvTryBlockResumedExited(t) ==
    /\ ~crashed
    /\ pc[t] = "resumed_exited"
    /\ ctx' = [ctx EXCEPT ![ContextSlot(t)].active = FALSE,
                          ![ContextSlot(t)].jmpbuf_stack = PopJmpbuf(@)]
    /\ raisedBy' = [raisedBy EXCEPT ![t] = Append(@, JumpTarget(t))]
    /\ \/ /\ exc' = [exc EXCEPT ![t] =
                       InvalidMemoryAccessException(FaultMessage(currentFaultAddress[t]))]
          /\ pc' = [pc EXCEPT ![t] = "unwind"]
          /\ UNCHANGED crashed
       \/ /\ crashed' = TRUE
          /\ pc' = [pc EXCEPT ![t] = "crashed"]
          /\ UNCHANGED exc
    /\ UNCHANGED << frames, currentFaultAddress, handlers, mutexOwner, installed,
                    sigHandler, sigBlocked, faultAddr, quota, entered,
                    depthOf, faulted, returned, threw, unregInside, unregNoop, afterUnregister, installCount,
                    redelivered >>

\* ---------------------------------------------------------------- unregisterThreadHandler
\* the running code calls unregisterThreadHandler
unregisterThreadHandler(t) ==
    /\ ~crashed
    /\ pc[t] = "run"
    /\ pc' = [pc EXCEPT ![t] = "unreg"]
    /\ UNCHANGED << frames, ctx, currentFaultAddress, handlers, mutexOwner, installed,
                    sigHandler, sigBlocked, exc, crashed, faultAddr, quota, entered,
                    depthOf, faulted, returned, raisedBy, threw, unregInside, unregNoop,
                    afterUnregister, installCount, redelivered >>

\* slip: the context is released without the test
HasContextToRelease_Unchecked(t) == TRUE

\* if (currentThreadContext)
HasContextToRelease(t) == currentThreadContext(t).exists

\* the test of unregisterThreadHandler: without a context the call returns
\* at once
unregisterTest(t) ==
    /\ ~crashed
    /\ pc[t] = "unreg"
    /\ IF HasContextToRelease(t)
       THEN /\ pc' = [pc EXCEPT ![t] = "unreg_lock"]
            /\ UNCHANGED unregNoop
       ELSE /\ pc' = [pc EXCEPT ![t] = "run"]
            /\ unregNoop' = [unregNoop EXCEPT ![t] = TRUE]
    /\ UNCHANGED << frames, ctx, currentFaultAddress, handlers, mutexOwner, installed,
                    sigHandler, sigBlocked, exc, crashed, faultAddr, quota, entered,
                    depthOf, faulted, returned, raisedBy, threw, unregInside,
                    afterUnregister, installCount, redelivered >>

\* std::lock_guard lock(getHandlersMutex())
unregisterLock(t) ==
    /\ ~crashed
    /\ pc[t] = "unreg_lock"
    /\ MutexAvailable(mutexOwner)
    /\ mutexOwner' = t
    /\ pc' = [pc EXCEPT ![t] = "unreg_erase"]
    /\ UNCHANGED << frames, ctx, currentFaultAddress, handlers, installed,
                    sigHandler, sigBlocked, exc, crashed, faultAddr, quota, entered,
                    depthOf, faulted, returned, raisedBy, threw, unregInside, unregNoop,
                    afterUnregister, installCount, redelivered >>

\* slip: the whole map is cleared
EraseHandler_Clear(h, t) == {}

\* slip: the entry is left in the map
EraseHandler_Skip(h, t) == h

\* getThreadHandlers().erase(this_id)
EraseHandler(h, t) == h \ {t}

\* slip: a context with checkpoints on its stack is not released
ReleasedContext_KeptWhileActive(c) == IF c.jmpbuf_stack # <<>> THEN c ELSE NoContext

\* slip: the entry is erased but the thread keeps its context
ReleasedContext_Kept(c) == c

\* currentThreadContext = nullptr
ReleasedContext(c) == NoContext

\* getThreadHandlers().erase(this_id); unlock; currentThreadContext = nullptr
unregisterErase(t) ==
    /\ ~crashed
    /\ pc[t] = "unreg_erase"
    /\ handlers' = EraseHandler(handlers, t)
    /\ mutexOwner' = NoOwner
    /\ ctx' = [ctx EXCEPT ![ContextSlot(t)] = ReleasedContext(@)]
    /\ unregInside' = [unregInside EXCEPT ![t] = @ \/ frames[t] # <<>>]
    /\ afterUnregister' = [afterUnregister EXCEPT ![t] = (frames[t] = <<>>)]
    /\ pc' = [pc EXCEPT ![t] = "run"]
    /\ UNCHANGED << frames, currentFaultAddress, installed,
                    sigHandler, sigBlocked, exc, crashed, faultAddr, quota, entered,
                    depthOf, faulted, returned, raisedBy, threw, unregNoop, installCount,
                    redelivered >>

\* ---------------------------------------------------------------- specification
Next ==
    \E t \in Threads :
        \/ installGlobalHandlerOnce(t)
        \/ installSigaction(t)
        \/ installSetFlag(t)
        \/ registerThreadHandler(t)
        \/ registerLock(t)
        \/ registerInsert(t)
        \/ segvTryBlockEnter(t)
        \/ \E a \in FaultAddrs : BlockFaults(t, a)
        \/ \E e \in OrdinaryExceptions : BlockThrows(t, e)
        \/ Catch(t)
        \/ ThreadExit(t)
        \/ segvTryBlockReturn(t)
        \/ segvTryBlockPropagate(t)
        \/ segvTryBlockResumed(t)
        \/ SignalDelivery(t)
        \/ threadSegvHandler(t)
        \/ segvTryBlockResumedExited(t)
        \/ unregisterThreadHandler(t)
        \/ unregisterTest(t)
        \/ unregisterLock(t)
        \/ unregisterErase(t)

Spec == Init /\ [][Next]_vars

SpecConc == InitConc /\ [][Next]_vars

\* the steps of the fault path are steps of the kernel and of library code
\* without a loop or a wait: a thread that is scheduled takes them
FaultPathFairness ==
    \A t \in Threads :
        /\ WF_vars(SignalDelivery(t))
        /\ WF_vars(threadSegvHandler(t))
        /\ WF_vars(segvTryBlockResumed(t))
        /\ WF_vars(segvTryBlockResumedExited(t))

\* the main thread alone, under fair scheduling
SpecFair == Init /\ [][Next]_vars /\ FaultPathFairness

\* ---------------------------------------------------------------- type invariant
TypeOK ==
    /\ pc \in [Threads -> {"run", "sigaction", "set_installed", "register", "reg_lock", "reg_insert",
                           "enter", "fault", "handler", "resumed", "resumed_exited",
                           "unwind", "unreg", "unreg_lock", "unreg_erase", "exited", "crashed"}]
    /\ mutexOwner \in Threads \cup {NoOwner}
    /\ handlers \subseteq Threads
    /\ \A t \in Threads : ctx[t].exists \in BOOLEAN /\ ctx[t].active \in BOOLEAN

\* ---------------------------------------------------------------- properties
\* no exception has left a block of the thread through segvTryBlock, and the
\* thread never released its context inside a region
Clean(t) == ~threw[t] /\ ~unregInside[t]

IsFaultError(e) == e.kind = "InvalidMemoryAccessException"

\* msg contains part
RECURSIVE ContainsAt(_, _, _)
ContainsAt(msg, part, i) ==
    IF i + Len(part) - 1 > Len(msg) THEN FALSE
    ELSE IF SubSeq(msg, i, i + Len(part) - 1) = part THEN TRUE
    ELSE ContainsAt(msg, part, i + 1)

Contains(msg, part) == ContainsAt(msg, part, 1)

\* the message names a null-pointer access: it says "null pointer" or gives
\* the address as 0x0
DenotesNullPointer(msg) ==
    \/ msg = << "Invalid null pointer access exception" >>
    \/ Contains(msg, << "Invalid memory access exception at address (0x", "0", ")" >>)

\* the checkpoints Checkpoint(t, 1) .. Checkpoint(t, n) in order
FirstCheckpoints(t, n) == [i \in 1..n |-> Checkpoint(t, i)]

\* C1: a null-pointer fault in a single non-nested protected region is
\* delivered to the handler, the handler resumes in that region's
\* segvTryBlock instead of returning to the faulting access, and segvTryBlock
\* leaves by raising InvalidMemoryAccessException with the null-pointer message.
C1_NullFaultRaises ==
    [][\A t \in Threads :
         ( /\ Clean(t)
           /\ Depth(t) = 1
           /\ faultAddr[t] = NullPtr
           /\ pc'[t] # pc[t] )
         => /\ (pc[t] = "fault" => pc'[t] = "handler")
            /\ (pc[t] = "handler" => pc'[t] = "resumed" /\ frames'[t] = frames[t])
            /\ (pc[t] = "resumed" =>
                  /\ pc'[t] = "unwind"
                  /\ frames'[t] = <<>>
                  /\ IsFaultError(exc'[t])
                  /\ DenotesNullPointer(exc'[t].msg))]_vars

\* a single region has just raised for a null-pointer fault
C1_Witness ==
    \E t \in Threads :
        /\ Clean(t) /\ entered[t] = 1 /\ depthOf[t] = << 0 >>
        /\ pc[t] = "unwind" /\ Depth(t) = 0
        /\ faultAddr[t] = NullPtr
        /\ IsFaultError(exc[t])
        /\ raisedBy[t] = << Checkpoint(t, 1) >>

\* C2: after a fault at a non-null invalid address in a protected region, the
\* recorded fault address is that address and the message of the raised
\* InvalidMemoryAccessException contains its hexadecimal digits and is not the
\* null-pointer message.
C2_AddressInMessage ==
    \A t \in Threads :
        ( /\ Clean(t)
          /\ pc[t] = "unwind"
          /\ IsFaultError(exc[t])
          /\ faultAddr[t] # NullPtr )
        => /\ currentFaultAddress[t] = faultAddr[t]
           /\ Contains(exc[t].msg, HexUpper(faultAddr[t]))
           /\ ~DenotesNullPointer(exc[t].msg)

\* every region thread t has entered so far was entered outside any other
\* region, and its block faulted
SequentialFaulting(t) ==
    /\ Clean(t)
    /\ \A n \in 1..entered[t] : depthOf[t][n] = 0
    /\ faulted[t] = { Checkpoint(t, n) : n \in 1..entered[t] }

\* the thread is between protected regions and not handling a fault
BetweenRegions(t) ==
    /\ Depth(t) = 0
    /\ pc[t] \notin {"fault", "handler", "crashed"}

\* C3: when N sequential regions of a thread have each faulted, N
\* InvalidMemoryAccessExceptions have been raised, one by each region in the
\* order of the regions, and the checkpoint stack is empty between the
\* regions; the fault of each of them is trapped, never fatal.
C3_SequentialFaults ==
    \A t \in Threads :
        /\ (SequentialFaulting(t) /\ BetweenRegions(t))
           => /\ raisedBy[t] = FirstCheckpoints(t, entered[t])
              /\ StackSize(t) = 0
        /\ (SequentialFaulting(t) /\ Depth(t) = 1) => pc[t] # "crashed"

\* three sequential regions have each faulted and raised
C3_Witness ==
    \E t \in Threads :
        /\ SequentialFaulting(t) /\ BetweenRegions(t)
        /\ entered[t] = 3
        /\ Len(raisedBy[t]) = 3

\* C4: with region B nested in region A, the stack holds one checkpoint
\* inside A and two inside B; when B has raised for its fault, the caller
\* inside A sees exactly A's checkpoint on the stack; and a region whose
\* block did not fault never raises.
C4_InnerFaultKeepsOuter ==
    \A t \in Threads :
        Clean(t)
        => /\ (pc[t] = "run" /\ Depth(t) \in {1, 2} => StackSize(t) = Depth(t))
           /\ ( (pc[t] = "unwind" /\ IsFaultError(exc[t]) /\ Depth(t) = 1)
                => currentThreadContext(t).jmpbuf_stack = << frames[t][1].cp >> )
           /\ Range(raisedBy[t]) \subseteq faulted[t]

\* B, nested in A, faulted and raised; A then completed normally
C4_Witness ==
    \E t \in Threads :
        /\ Clean(t)
        /\ depthOf[t] = << 0, 1 >>
        /\ raisedBy[t] = << Checkpoint(t, 2) >>
        /\ returned[t] = { Checkpoint(t, 1) }
        /\ faulted[t] = { Checkpoint(t, 2) }
        /\ pc[t] = "run" /\ Depth(t) = 0

\* C5: each recovery pops exactly one checkpoint and raises once for the
\* region recovered, which has not raised before; and the stack is empty only
\* when no region is active, so with faults in the inner, middle and outer
\* region the size goes 3, 2, 1, 0.
C5_RecoveryPopsOne ==
    [][\A t \in Threads :
         /\ ( ( /\ Clean(t)
                /\ pc[t] = "resumed"
                /\ pc'[t] # pc[t] )
              => /\ StackSize(t) = Depth(t)
                 /\ StackSize(t)' = StackSize(t) - 1
                 /\ Top(frames[t]).cp \notin Range(raisedBy[t])
                 /\ raisedBy'[t] = Append(raisedBy[t], Top(frames[t]).cp) )
         /\ ( (Clean(t)' /\ Depth(t)' > 0) => StackSize(t)' > 0 )]_vars

\* the inner, the middle and the outer region faulted and raised in turn
C5_Witness ==
    \E t \in Threads :
        /\ Clean(t)
        /\ depthOf[t] = << 0, 1, 2 >>
        /\ raisedBy[t] = << Checkpoint(t, 3), Checkpoint(t, 2), Checkpoint(t, 1) >>
        /\ Depth(t) = 0 /\ StackSize(t) = 0

NoDuplicates(s) == \A i, j \in 1..Len(s) : s[i] = s[j] => i = j

C7_NormalReturnNetZero ==
    [][\A t \in Threads :
         ( /\ Clean(t)
           /\ pc[t] = "run" /\ pc'[t] = "run"
           /\ Depth(t) > 0
           /\ frames'[t] = Pop(frames[t]) )
         => /\ StackSize(t)' = Top(frames[t]).base
            /\ StackSize(t)' = StackSize(t) - 1
            /\ raisedBy'[t] = raisedBy[t]
            /\ exc'[t] = NoException]_vars

\* a region nested two deep has returned normally
C7_Witness ==
    \E t \in Threads :
        /\ Clean(t)
        /\ depthOf[t] = << 0, 1, 2 >>
        /\ Checkpoint(t, 3) \in returned[t]
        /\ StackSize(t) = 2 /\ Depth(t) = 2

\* C8: an ordinary exception in flight in a block leaves segvTryBlock as the
\* same exception; the step raises no InvalidMemoryAccessException.
C8_OrdinaryExceptionUntouched ==
    [][\A t \in Threads :
         ( /\ pc[t] = "unwind"
           /\ exc[t] \in OrdinaryExceptions
           /\ pc'[t] = "unwind" )
         => /\ exc'[t] = exc[t]
            /\ raisedBy'[t] = raisedBy[t]]_vars

\* an ordinary exception has left segvTryBlock and is in flight in its caller
C8_Witness ==
    \E t \in Threads :
        /\ pc[t] = "unwind"
        /\ exc[t] \in OrdinaryExceptions
        /\ threw[t]
        /\ entered[t] = 1 /\ Depth(t) = 0

RECURSIVE SumRaised(_)
SumRaised(T) ==
    IF T = {} THEN 0
    ELSE LET t == CHOOSE x \in T : TRUE
         IN Len(raisedBy[t]) + SumRaised(T \ {t})

\* C9: with every thread running at most one region, a thread raises only for
\* its own faulting region, and when all threads have ended the number of
\* InvalidMemoryAccessExceptions raised is the number of threads that faulted.
C9_PerThreadCounts ==
    (\A t \in Threads : Clean(t) /\ entered[t] <= 1)
    => /\ \A t \in Threads : Range(raisedBy[t]) \subseteq faulted[t]
       /\ \A t \in Threads : pc[t] = "exited" => Len(raisedBy[t]) = Cardinality(faulted[t])
       /\ (\A t \in Threads : pc[t] = "exited")
          => SumRaised(Threads) = Cardinality({ t \in Threads : faulted[t] # {} })

\* all threads ran one region and released their context; thread 1 faulted
\* and raised, thread 2 did not fault and raised nothing
C9_Witness ==
    /\ \A t \in Threads : pc[t] = "exited" /\ Clean(t) /\ entered[t] <= 1
    /\ handlers = {}
    /\ raisedBy[1] = << Checkpoint(1, 1) >>
    /\ returned[2] = { Checkpoint(2, 1) } /\ raisedBy[2] = <<>>

\* C10: when the handler is about to jump for a fault inside an active
\* region, the checkpoint on top of the stack is the one of the innermost
\* active region.
C10_ResumeInnermostActive ==
    \A t \in Threads :
        ( /\ pc[t] = "handler"
          /\ Depth(t) > 0
          /\ currentThreadContext(t).exists
          /\ currentThreadContext(t).jmpbuf_stack # <<>> )
        => JumpTarget(t) = Top(frames[t]).cp

\* C11: a fault on a thread with no active protected region, with the handler
\* installed, is fatal: the handler neither resumes anywhere nor returns to
\* the faulting access; its step ends with the process terminated.
C11_UnprotectedFaultFatal ==
    [][\A t \in Threads :
         ( /\ Clean(t)
           /\ pc[t] = "handler"
           /\ Depth(t) = 0
           /\ pc'[t] # pc[t] )
         => pc'[t] = "crashed"]_vars

\* C12: an unregisterThreadHandler call on a thread that has no context (it
\* released it by an earlier call, or never entered a region) returns at
\* once: it changes neither a context nor the registry, does not take the
\* mutex, and raises nothing.
C12_UnregisterIdempotent ==
    [][\A t \in Threads :
         ( /\ pc[t] = "unreg"
           /\ ~currentThreadContext(t).exists
           /\ pc'[t] # pc[t] )
         => /\ pc'[t] = "run"
            /\ ctx' = ctx
            /\ handlers' = handlers
            /\ mutexOwner' = mutexOwner
            /\ exc'[t] = exc[t]
            /\ crashed' = crashed]_vars

\* the thread ran a region, released its context, and a second
\* unregisterThreadHandler call has returned
C12_Witness ==
    \E t \in Threads :
        /\ entered[t] > 0
        /\ unregNoop[t]
        /\ pc[t] = "run" /\ Depth(t) = 0
        /\ ~currentThreadContext(t).exists
        /\ t \notin handlers

\* C13: when unregisterThreadHandler returns on a thread with no active
\* protected region, the thread has no context and the registry has no entry
\* for it; the contexts and the registry entries of the other threads are as
\* they were.
C13_UnregisterCleansUp ==
    [][\A t \in Threads :
         ( /\ pc[t] \in {"unreg", "unreg_erase"}
           /\ pc'[t] = "run"
           /\ Depth(t) = 0 )
         => /\ ~currentThreadContext(t).exists'
            /\ t \notin handlers'
            /\ handlers' \ {t} = handlers \ {t}
            /\ \A u \in Threads \ {t} : ctx'[u] = ctx[u]]_vars

\* a thread has released its context outside every region while another
\* thread has a registered context
C13_Witness ==
    \E t, u \in Threads :
        /\ t # u
        /\ entered[t] > 0
        /\ pc[t] = "run" /\ Depth(t) = 0
        /\ ~currentThreadContext(t).exists
        /\ t \notin handlers
        /\ currentThreadContext(u).exists
        /\ u \in handlers

\* C14: when a thread ends, the registry keeps an entry for it exactly when
\* the thread still had its context (it ran a region and did not release
\* the context afterwards); the entry of a thread that has ended is never
\* removed, and none is ever added for it.
C14_ExitLeaksContext ==
    [][\A t \in Threads :
         /\ (pc[t] # "exited" /\ pc'[t] = "exited")
            => (t \in handlers' <=> currentThreadContext(t).exists)
         /\ pc[t] = "exited"
            => (t \in handlers' <=> t \in handlers)]_vars

\* a thread ran a region and ended without releasing its context: its entry
\* is in the registry, while another thread, which released its context
\* before it ended, has none
C14_Witness ==
    \E t, u \in Threads :
        /\ pc[t] = "exited" /\ entered[t] > 0 /\ t \in handlers
        /\ pc[u] = "exited" /\ entered[u] > 0 /\ u \notin handlers

\* C15: once a thread has released its context outside every region, its
\* next segvTryBlock behaves like first use, whatever happened on the thread
\* before: the context it runs on is registered and its stack holds exactly
\* the checkpoints of the active regions (so it is empty when a region has
\* returned and between regions), and a fault inside a region is trapped:
\* it is never fatal and never resumed in an invocation that has exited.
C15_FreshAfterUnregister ==
    \A t \in Threads :
        afterUnregister[t]
        => /\ (pc[t] = "enter" /\ Depth(t) = 0)
              => currentThreadContext(t) = NewContext /\ t \in handlers
           /\ (currentThreadContext(t).exists /\ pc[t] \in {"run", "fault", "handler", "unwind"})
              => /\ currentThreadContext(t).jmpbuf_stack = FrameCps(t)
                 /\ t \in handlers
           /\ Depth(t) > 0 => pc[t] \notin {"crashed", "resumed_exited"}
           /\ (pc[t] = "unwind" /\ IsFaultError(exc[t]))
              => Top(raisedBy[t]) \in faulted[t]

\* an ordinary exception left a block of the thread, the thread released its
\* context, and a region entered after that has trapped a fault and raised,
\* leaving the stack empty
C15_Witness ==
    \E t \in Threads :
        /\ afterUnregister[t]
        /\ threw[t]
        /\ pc[t] = "unwind" /\ IsFaultError(exc[t])
        /\ Depth(t) = 0 /\ StackSize(t) = 0
        /\ Top(raisedBy[t]) = Checkpoint(t, entered[t])
        /\ t \in handlers

\* C16: the checkpoint the handler is about to jump to belongs to a
\* segvTryBlock invocation that is still executing on the faulting thread,
\* however the regions entered before have exited.
C16_NeverResumeExited ==
    \A t \in Threads :
        ( /\ pc[t] = "handler"
          /\ ~unregInside[t]
          /\ currentThreadContext(t).exists
          /\ currentThreadContext(t).jmpbuf_stack # <<>> )
        => FrameOf(t, JumpTarget(t)) # 0

\* C17: every checkpoint on a thread's stack belongs to an invocation of
\* segvTryBlock that is still executing: the stack is the sequence of the
\* checkpoints of the active regions, outermost first.
C17_StackMatchesActiveRegions ==
    \A t \in Threads :
        ( /\ ~unregInside[t]
          /\ currentThreadContext(t).exists
          /\ pc[t] \in {"run", "unwind"} )
        => currentThreadContext(t).jmpbuf_stack = FrameCps(t)

\* C18: while code of the thread runs (in a block or between regions), the
\* active flag of its context is true exactly when at least one protected
\* region is active on the thread.
C18_ActiveIffRegionActive ==
    \A t \in Threads :
        ( /\ Clean(t)
          /\ currentThreadContext(t).exists
          /\ pc[t] = "run" )
        => (currentThreadContext(t).active <=> Depth(t) > 0)

\* C19: the step of the installed handler is a non-local resume exactly when
\* the faulting thread has a context that is marked active and whose stack
\* is not empty.
C19_ResumeIffActiveNonEmpty ==
    [][\A t \in Threads :
         ( /\ Clean(t)
           /\ pc[t] = "handler"
           /\ pc'[t] # pc[t] )
         => ( pc'[t] \in {"resumed", "resumed_exited"}
              <=> /\ currentThreadContext(t).exists
                  /\ currentThreadContext(t).active
                  /\ currentThreadContext(t).jmpbuf_stack # <<>> )]_vars

\* C20: whenever threadSegvHandler runs on a thread, the thread's
\* currentThreadContext is not null.
C20_HandlerHasContext ==
    \A t \in Threads :
        pc[t] = "handler" => currentThreadContext(t).exists

\* C21: whenever code of a thread runs outside the handler, SIGSEGV is not in
\* the thread's signal mask, however many faults were trapped on the thread
\* before, so the next fault is delivered to the handler again.
C21_SignalUnblockedOutsideHandler ==
    \A t \in Threads :
        pc[t] \notin {"handler", "crashed"} => ~sigBlocked[t]

\* a block runs with SIGSEGV unblocked after two faults were trapped on the thread
C21_Witness ==
    \E t \in Threads :
        /\ Len(raisedBy[t]) = 2
        /\ pc[t] = "run" /\ Depth(t) = 1
        /\ ~sigBlocked[t]

\* C22: the installation step of installGlobalHandlerOnce, the sigaction
\* call, is performed at most once in the process, whatever the number of
\* threads and regions.
C22_InstalledOnce ==
    installCount <= 1

\* C23: in every state in which a thread is inside a protected region the
\* handler is installed, and once sigaction has been called the handler is
\* installed in every later state, also when no thread has a context or a
\* registry entry any more.
C23_HandlerInstalledWhileProtected ==
    /\ (\E t \in Threads : Depth(t) > 0 \/ pc[t] \in {"register", "reg_lock", "reg_insert", "enter"})
       => sigHandler
    /\ (installed \/ installCount > 0) => sigHandler

\* every thread has run a region and released its context, the registry is
\* empty, and the handler is still installed
C23_Witness ==
    /\ \A t \in Threads :
          /\ entered[t] > 0
          /\ pc[t] = "run" /\ Depth(t) = 0
          /\ ~currentThreadContext(t).exists
    /\ handlers = {}
    /\ sigHandler

\* C24: the fault path of a thread (delivery, handler, the fault-resumed
\* branch of segvTryBlock) never holds the registry mutex and never waits
\* for it: each of its steps can be taken whoever holds the mutex.
C24_HandlerLockFree ==
    \A t \in Threads :
        ~crashed
        => /\ pc[t] \in {"fault", "handler", "resumed", "resumed_exited"} => mutexOwner # t
           /\ pc[t] = "fault" => ENABLED SignalDelivery(t)
           /\ pc[t] = "handler" => ENABLED threadSegvHandler(t)
           /\ pc[t] = "resumed" => ENABLED segvTryBlockResumed(t)

\* the handler has resumed a fault of one thread while another thread holds
\* the registry mutex
C24_Witness ==
    \E t, u \in Threads :
        /\ t # u
        /\ pc[t] = "resumed"
        /\ mutexOwner = u
        /\ pc[u] \in {"reg_insert", "unreg_erase"}

\* the thread is inside registerThreadHandler or unregisterThreadHandler
InsideRegistryOp(t) ==
    pc[t] \in {"reg_lock", "reg_insert", "unreg", "unreg_lock", "unreg_erase"}

\* at most one thread is changing the map, and it holds the mutex
RegistryMutualExclusion ==
    /\ \A t, u \in Threads :
          (pc[t] \in {"reg_insert", "unreg_erase"} /\ pc[u] \in {"reg_insert", "unreg_erase"})
          => t = u
    /\ \A t \in Threads : pc[t] \in {"reg_insert", "unreg_erase"} <=> mutexOwner = t

\* C25 as stated: insertions and removals exclude each other, and whenever
\* no thread is inside registerThreadHandler or unregisterThreadHandler the
\* keys of the registry are the live threads that have a context.
C25_RegistryMatchesLiveContexts ==
    /\ RegistryMutualExclusion
    /\ (\A t \in Threads : ~InsideRegistryOp(t))
       => handlers = { t \in Threads : pc[t] # "exited" /\ currentThreadContext(t).exists }

\* C25 amended: insertions and removals exclude each other, and a live
\* thread that is inside neither operation has a registry entry exactly
\* when it has a context; the entry of a thread that ended with a context
\* stays in the registry.
C25_RegistryMatchesContexts ==
    /\ RegistryMutualExclusion
    /\ \A t \in Threads :
          (pc[t] # "exited" /\ ~InsideRegistryOp(t))
          => (t \in handlers <=> currentThreadContext(t).exists)

\* one thread is inserting its entry while another, which has an entry,
\* waits for the mutex to remove it
C25_Witness ==
    \E t, u \in Threads :
        /\ pc[t] = "reg_insert" /\ mutexOwner = t
        /\ pc[u] = "unreg_lock" /\ u \in handlers
        /\ t \notin handlers

\* C26: a step that is not a step of thread t leaves t's checkpoint stack,
\* active flag and recorded fault address as they were, and every
\* checkpoint on t's stack, so every checkpoint a fault on t can be resumed
\* to, was pushed by t.
C26_ThreadsIndependent ==
    [][\A t \in Threads :
         /\ (pc'[t] = pc[t] /\ frames'[t] = frames[t])
            => /\ ctx'[t] = ctx[t]
               /\ currentFaultAddress'[t] = currentFaultAddress[t]
         /\ \A i \in 1..Len(ctx'[t].jmpbuf_stack) : ctx'[t].jmpbuf_stack[i][1] = t
         /\ pc'[t] \in {"resumed", "resumed_exited"} => JumpTarget(t)'[1] = t]_vars

\* both threads are inside a region of their own, and one of them has
\* trapped a fault and raised while the other's stack kept its checkpoint
C26_Witness ==
    \E t, u \in Threads :
        /\ t # u
        /\ raisedBy[t] = << Checkpoint(t, 1) >>
        /\ pc[t] = "unwind" /\ StackSize(t) = 0
        /\ pc[u] = "run" /\ Depth(u) = 1
        /\ ctx[u].jmpbuf_stack = << Checkpoint(u, 1) >>
        /\ ctx[u].active

\* C27: registerThreadHandler makes a context only when the thread has
\* none; on a thread that has one it changes neither the context nor the
\* registry, and the entry of the region that follows keeps the stack
\* contents and adds its checkpoint on top.
C27_ContextReused ==
    [][\A t \in Threads :
         /\ (pc[t] = "register" /\ pc'[t] # pc[t])
            => /\ handlers' = handlers
               /\ IF currentThreadContext(t).exists
                  THEN ctx'[t] = ctx[t] /\ pc'[t] = "enter"
                  ELSE ctx'[t] = NewContext /\ pc'[t] = "reg_lock"
         /\ (pc[t] = "reg_insert" /\ pc'[t] # pc[t])
            => handlers' = handlers \cup {t}
         /\ (pc[t] = "enter" /\ pc'[t] # pc[t])
            => /\ SubSeq(ctx'[t].jmpbuf_stack, 1, StackSize(t)) = ctx[t].jmpbuf_stack
               /\ handlers' = handlers]_vars

\* a second region nested in the first runs on the context the first one
\* made: the stack holds both checkpoints and the registry the one entry
C27_Witness ==
    \E t \in Threads :
        /\ entered[t] = 2 /\ depthOf[t] = << 0, 1 >>
        /\ pc[t] = "run" /\ Depth(t) = 2
        /\ ctx[t].jmpbuf_stack = << Checkpoint(t, 1), Checkpoint(t, 2) >>
        /\ handlers = {t}

\* C28: the entry of a protected region pushes exactly one checkpoint, its
\* own, at every nesting depth; on a thread where no exception has left a
\* block, the stack size inside a region entered at depth d is d + 1.
C28_EntryPushesOne ==
    [][\A t \in Threads :
         (pc[t] = "enter" /\ pc'[t] # pc[t])
         => /\ ctx'[t].jmpbuf_stack =
                 Append(ctx[t].jmpbuf_stack, Checkpoint(t, entered[t] + 1))
            /\ StackSize(t)' = StackSize(t) + 1
            /\ Clean(t) => StackSize(t)' = Depth(t) + 1]_vars

\* three regions are nested and the stack holds the three checkpoints
C28_Witness ==
    \E t \in Threads :
        /\ Clean(t)
        /\ depthOf[t] = << 0, 1, 2 >>
        /\ pc[t] = "run" /\ Depth(t) = 3
        /\ ctx[t].jmpbuf_stack = FirstCheckpoints(t, 3)

\* C29: no pop and no top is applied to an empty stack: the fault-resumed
\* branch of segvTryBlock, which pops without a test, is reached only with
\* a context whose stack is not empty, the checkpoint the handler jumped to
\* is on top of it, and the pop of the normal path leaves an empty stack
\* empty.
C29_NoPopOrTopOnEmpty ==
    [][\A t \in Threads :
         /\ pc'[t] \in {"resumed", "resumed_exited"}
            => /\ currentThreadContext(t).exists'
               /\ StackSize(t)' > 0
         /\ pc'[t] = "resumed" => JumpTarget(t)' = Top(frames'[t]).cp
         /\ (pc[t] \in {"resumed", "resumed_exited"} /\ pc'[t] # pc[t])
            => StackSize(t)' = StackSize(t) - 1
         /\ ( /\ pc[t] = "run" /\ pc'[t] = "run"
              /\ frames'[t] # frames[t]
              /\ StackSize(t) = 0 )
            => StackSize(t)' = 0]_vars

\* the fault-resumed pop has removed the last checkpoint of the stack
C29_Witness ==
    \E t \in Threads :
        /\ pc[t] = "unwind" /\ IsFaultError(exc[t])
        /\ currentThreadContext(t).exists
        /\ StackSize(t) = 0
        /\ Len(raisedBy[t]) = 1

\* C30: a checkpoint is resumed at most once: the handler never jumps to a
\* checkpoint a fault was resumed to before, no checkpoint that has been
\* resumed to and raised for is on the stack, and no checkpoint raises twice.
C30_ResumedAtMostOnce ==
    \A t \in Threads :
        /\ NoDuplicates(raisedBy[t])
        /\ currentThreadContext(t).exists
           => Range(currentThreadContext(t).jmpbuf_stack) \cap Range(raisedBy[t]) = {}
        /\ pc[t] \in {"resumed", "resumed_exited"}
           => JumpTarget(t) \notin Range(raisedBy[t])

\* a region has trapped a fault and raised, and a later fault on the thread
\* has been resumed to the checkpoint of another region
C30_Witness ==
    \E t \in Threads :
        /\ raisedBy[t] = << Checkpoint(t, 1) >>
        /\ pc[t] = "resumed"
        /\ JumpTarget(t) = Checkpoint(t, 2)

\* C31: under fair scheduling, a fault in the block of an active protected
\* region leads to that region's segvTryBlock raising
\* InvalidMemoryAccessException.
C31_FaultLeadsToRaise ==
    \A t \in Threads : \A n \in 1..MaxRegions :
        ( /\ pc[t] = "fault"
          /\ ~unregInside[t]
          /\ Depth(t) > 0
          /\ Top(frames[t]).cp = Checkpoint(t, n) )
        ~> ( Checkpoint(t, n) \in Range(raisedBy[t]) )

\* on a thread where no ordinary exception has left a block and no release
\* was made inside a region, a fault in the block of an active region leads
\* to that region raising InvalidMemoryAccessException
FaultInCleanRegionLeadsToRaise ==
    \A t \in Threads : \A n \in 1..MaxRegions :
        ( /\ pc[t] = "fault"
          /\ Clean(t)
          /\ Depth(t) > 0
          /\ Top(frames[t]).cp = Checkpoint(t, n) )
        ~> ( /\ Checkpoint(t, n) \in Range(raisedBy[t])
             /\ pc[t] = "unwind"
             /\ IsFaultError(exc[t]) )

\* C32: unregisterThreadHandler called inside an active protected region
\* removes the thread's context, with every checkpoint on its stack, and
\* its registry entry, while the regions stay active; after that, as long
\* as the thread has no context, the completion of a region dereferences
\* the null context and faults, and the handler entered for a fault finds
\* no context and the process is terminated.
C32_UnregisterInsideRegion ==
    [][\A t \in Threads :
         /\ (pc[t] = "unreg_erase" /\ pc'[t] # pc[t] /\ Depth(t) > 0)
            => /\ ~currentThreadContext(t).exists'
               /\ StackSize(t)' = 0
               /\ t \notin handlers'
               /\ frames'[t] = frames[t]
               /\ unregInside'[t]
         /\ ( /\ pc[t] = "run" /\ Depth(t) > 0
              /\ ~currentThreadContext(t).exists
              /\ ~currentThreadContext(t).exists' )
            => /\ frames'[t] = frames[t]
               /\ returned'[t] = returned[t]
         /\ ( /\ pc[t] = "handler"
              /\ ~currentThreadContext(t).exists
              /\ pc'[t] # pc[t] )
            => pc'[t] = "crashed"]_vars

\* the inner of two nested regions trapped a fault and raised, the thread
\* released its context inside the outer region, and the process was
\* terminated with the outer region still active and without a context
C32_Witness ==
    \E t \in Threads :
        /\ depthOf[t] = << 0, 1 >>
        /\ raisedBy[t] = << Checkpoint(t, 2) >>
        /\ unregInside[t]
        /\ Depth(t) = 1
        /\ ~currentThreadContext(t).exists
        /\ pc[t] = "crashed"

====
